---------------------------- MODULE Spec2Model ----------------------------
(***************************************************************************)
(* The Lambda request router and item store of the DevOps portfolio API,   *)
(* in its two variants:                                                    *)
(*   "mem" : lambda/src/handler.ts, items kept in a module-level array;    *)
(*   "ddb" : the DynamoDB handler, items kept in one DynamoDB table.       *)
(* The variant is selected at deploy time, so it is chosen in Init and     *)
(* never changes.  One step of the model is one handler invocation.        *)
(***************************************************************************)
EXTENDS Integers, Sequences, FiniteSets, Bags, TLC

\* Bounds of the model.
MaxItems == 2
MaxClock == 1
MaxRecords == 3  \* the items a store holds where a scan of more than a page matters
MaxExecutions == 2  \* the executions of the pipeline
MaxRuns == 2  \* the runs of scripts/full-deploy.sh
MaxRequests == 2  \* the invocations in progress at the same time

VARIABLES
  variant,      \* "mem" | "ddb": which handler is deployed
  items,        \* mem: the module-level array `items`
  table,        \* ddb: the table, a function from key (id) to record
  uuidCount,    \* ddb: how many ids randomUUID() has handed out
  now,          \* the wall clock (non-decreasing)
  req,          \* the event of the last invocation
  resp,         \* the result of the last invocation
  audit,        \* whether the history below is being kept
  deleted,      \* history: the ids whose DELETE has succeeded
  lastCreated,  \* history: the id the last successful create returned with
                \* the name and description it was given; forgotten once
                \* that id is updated or deleted
  lastRead,     \* history: the id and data of the last successful GET by id
                \* and how many such GETs in a row (up to 2) returned that
                \* id; forgotten once a create, update or delete succeeds
  executions,   \* the executions of the deployment pipeline
  sent,         \* ddb: the calls of docClient.send() in the last invocation
  run,          \* the run of scripts/full-deploy.sh, and the working directory
  calls         \* the invocations in progress at the same time

vars ==
  <<variant, items, table, uuidCount, now, req, resp, audit, deleted, lastCreated,
    lastRead, executions, sent, run, calls>>

-----------------------------------------------------------------------------
(* JavaScript values *)

\* The value `undefined`: a missing property.
undefined == "<undefined>"

\* !v for a property's value: undefined and "" are falsy.
Falsy(v) == v \in {undefined, ""}

Digit == <<"0", "1", "2", "3", "4", "5", "6", "7", "8", "9">>

\* Number.prototype.toString(): the decimal numeral of n.
RECURSIVE toString(_)
toString(n) ==
  IF n < 10 THEN Digit[n + 1]
  ELSE toString(n \div 10) \o Digit[(n % 10) + 1]

\* An object without properties: null pathParameters, or a response without data.
NoProps == << >>

\* obj?.key
Prop(obj, key) == IF key \in DOMAIN obj THEN obj[key] ELSE undefined

\* Request bodies: null, a text that is not JSON, or the JSON text of an object
\* whose name and description are each missing, empty or a non-empty string.
NameValues == {undefined, "", "A"}
DescriptionValues == {undefined, "", "D"}
NullBody == [kind |-> "null", name |-> undefined, description |-> undefined]
NotJson == [kind |-> "text", name |-> undefined, description |-> undefined]
JsonBodies == [kind : {"json"}, name : NameValues, description : DescriptionValues]
Bodies == {NullBody, NotJson} \cup JsonBodies

\* !body: a null body is falsy, a text is not.
NoBody(body) == body.kind = "null"

\* JSON.parse(text): throws on a text that is not JSON, else yields the object.
JSONParse(text) ==
  IF text.kind = "json"
    THEN [threw |-> FALSE, name |-> text.name, description |-> text.description]
    ELSE [threw |-> TRUE, name |-> undefined, description |-> undefined]

\* Paths are kept as their segments: "/api/v1/items/7" is <<"api","v1","items","7">>.
HealthPath  == <<"health">>
ItemsPath   == <<"api", "v1", "items">>
ItemPath(id) == <<"api", "v1", "items", id>>
OtherPath   == <<"nope">>

\* "/api/v1/itemsfoo": a path that has '/api/v1/items' as a prefix of its text
\* without being the collection or one of its items.
ItemsFooPath == <<"api", "v1", "itemsfoo">>

\* The path of an event that is not an API Gateway proxy event (a direct
\* invocation of the function): event.path is undefined.
UndefinedPath == <<undefined>>

\* The segments whose text starts with "items".
StartsWithItemsText == {"items", "itemsfoo"}

\* path.startsWith('/api/v1/items')
StartsWithItems(path) ==
  /\ Len(path) >= 3
  /\ SubSeq(path, 1, 2) = SubSeq(ItemsPath, 1, 2)
  /\ path[3] \in StartsWithItemsText

\* path.startsWith('/api/v1/items/')
StartsWithItemsSlash(path) ==
  Len(path) >= 4 /\ SubSeq(path, 1, 3) = ItemsPath

\* path.split('/').pop()
LastSegment(path) == path[Len(path)]


-----------------------------------------------------------------------------
(* Responses *)

\* The corsHeaders object of the in-memory handler, and createResponse's
\* header set in the DynamoDB handler.
CorsHeaders ==
  [h \in {"Access-Control-Allow-Origin", "Access-Control-Allow-Headers",
          "Access-Control-Allow-Methods", "Content-Type"} |->
     CASE h = "Access-Control-Allow-Origin" -> "*"
       [] h = "Access-Control-Allow-Headers" ->
            "Content-Type,X-Amz-Date,Authorization,X-Api-Key,X-Amz-Security-Token"
       [] h = "Access-Control-Allow-Methods" -> "GET,POST,PUT,DELETE,OPTIONS"
       [] OTHER -> "application/json"]

\* The headers the in-memory handler's catch block sends.
CatchHeaders ==
  [h \in {"Access-Control-Allow-Origin", "Content-Type"} |->
     IF h = "Access-Control-Allow-Origin" THEN "*" ELSE "application/json"]

\* The envelope: an absent data or error property is NoProps / undefined.
ApiResponse(success, data, error, message) ==
  [success |-> success, data |-> data, error |-> error, message |-> message]

\* A slip in createResponse: the status taken from the envelope's error.
createResponseByError(statusCode, body, headers) ==
  [statusCode |-> CASE Prop(body, "error") = "Not Found" -> 404
                    [] Prop(body, "error") = "Bad Request" -> 400
                    [] Prop(body, "error") = "Method Not Allowed" -> 405
                    [] OTHER -> statusCode,
   headers |-> headers, body |-> body]

\* createResponse(statusCode, body, headers)
createResponse(statusCode, body, headers) ==
  [statusCode |-> statusCode, headers |-> headers, body |-> body]

\* What a handler hands back to the action: the response (or envelope), the
\* store after the call and the clock after the call's last reading of it.
Outcome(response, store, clock) ==
  [response |-> response, store |-> store, clock |-> clock]

\* process.env.STAGE || 'dev'
STAGE == "dev"

-----------------------------------------------------------------------------
(* The in-memory handler, lambda/src/handler.ts *)

\* '2024-01-01T00:00:00Z', the instant the two sample items carry.  Timestamps
\* are kept as instants; toISOString() writes an instant as a string whose
\* order and equality are those of the instant.
SampleTime == 0

\* The initial value of `items`.
SampleItems ==
  << [id |-> "1", name |-> "Sample Item 1",
      description |-> "This is a sample item to demonstrate the API",
      createdAt |-> SampleTime, updatedAt |-> SampleTime],
     [id |-> "2", name |-> "Sample Item 2",
      description |-> "Another sample item showing CRUD operations",
      createdAt |-> SampleTime, updatedAt |-> SampleTime] >>

\* items.findIndex(item => item.id === id), 1-based; 0 stands for -1.
FindIndex(arr, id) ==
  IF \E i \in 1..Len(arr) : arr[i].id = id
    THEN CHOOSE i \in 1..Len(arr) :
           /\ arr[i].id = id
           /\ \A j \in 1..(i - 1) : arr[j].id # id
    ELSE 0

\* A slip in deleteItem: items.splice(index), which removes the index-th
\* element and all that follow it.
SpliceToEnd(arr, index) == SubSeq(arr, 1, index - 1)

\* items.splice(index, 1): the array without its index-th element.
Splice(arr, index) ==
  SubSeq(arr, 1, index - 1) \o SubSeq(arr, index + 1, Len(arr))

NotFoundMessage(id) == "Item with ID " \o id \o " not found"

handleHealthCheck(arr, t) ==
  Outcome(ApiResponse(TRUE,
                      [status |-> "healthy", environment |-> STAGE,
                       timestamp |-> t, version |-> "1.0.0"],
                      undefined, "Service is healthy and operational"),
          arr, t)

listItems(arr, clock) ==
  Outcome(ApiResponse(TRUE, [items |-> arr, count |-> Len(arr)],
                      undefined, "Items retrieved successfully"),
          arr, clock)

\* A slip in getItem: the item stamped with the time of the read.
getItemTouching(arr, id, clock) ==
  LET index == FindIndex(arr, id) IN
  IF index = 0
    THEN Outcome(ApiResponse(FALSE, NoProps, "Not Found", NotFoundMessage(id)),
                 arr, clock)
    ELSE Outcome(ApiResponse(TRUE,
                   [item |-> [arr[index] EXCEPT !.updatedAt = clock]],
                   undefined, "Item retrieved successfully"),
                 [arr EXCEPT ![index].updatedAt = clock], clock)

\* A slip in getItem: find() with !== for ===.
getItemOther(arr, id, clock) ==
  IF \E i \in 1..Len(arr) : arr[i].id # id
    THEN Outcome(ApiResponse(TRUE,
                   [item |-> arr[CHOOSE i \in 1..Len(arr) :
                                   /\ arr[i].id # id
                                   /\ \A j \in 1..(i - 1) : arr[j].id = id]],
                   undefined, "Item retrieved successfully"),
                 arr, clock)
    ELSE Outcome(ApiResponse(FALSE, NoProps, "Not Found", NotFoundMessage(id)),
                 arr, clock)

getItem(arr, id, clock) ==
  LET index == FindIndex(arr, id) IN
  IF index = 0
    THEN Outcome(ApiResponse(FALSE, NoProps, "Not Found", NotFoundMessage(id)),
                 arr, clock)
    ELSE Outcome(ApiResponse(TRUE, [item |-> arr[index]], undefined,
                             "Item retrieved successfully"),
                 arr, clock)

\* The id createItem gives a new item.
NewItemId(arr) == toString(Len(arr) + 1)

\* A slip in createItem's check: && for ||.
MissingFieldsBoth(parsed) == Falsy(parsed.name) /\ Falsy(parsed.description)

\* createItem's check of the parsed body: !name || !description.
MissingFields(parsed) == Falsy(parsed.name) \/ Falsy(parsed.description)

\* t1 and t2 are the two readings of the clock (createdAt, then updatedAt).
createItem(arr, body, clock, t1, t2) ==
  IF NoBody(body)
    THEN Outcome(ApiResponse(FALSE, NoProps, "Bad Request",
                             "Request body is required"), arr, clock)
  ELSE
  LET parsed == JSONParse(body) IN
  IF parsed.threw
    THEN Outcome(ApiResponse(FALSE, NoProps, "Bad Request",
                             "Invalid JSON in request body"), arr, clock)
  ELSE IF MissingFields(parsed)
    THEN Outcome(ApiResponse(FALSE, NoProps, "Bad Request",
                             "Name and description are required"), arr, clock)
  ELSE
  LET newItem == [id |-> NewItemId(arr), name |-> parsed.name,
                  description |-> parsed.description,
                  createdAt |-> t1, updatedAt |-> t2]
  IN Outcome(ApiResponse(TRUE, [item |-> newItem], undefined,
                         "Item created successfully"),
             Append(arr, newItem), t2)

\* A slip in updateItem: the fields written without the `if (name)` and
\* `if (description)` checks.
UpdatedItemUnchecked(item, parsed, t) ==
  [item EXCEPT !.name = parsed.name, !.description = parsed.description,
               !.updatedAt = t]

\* A slip in updateItem: createdAt stamped along with updatedAt.
UpdatedItemRestamped(item, parsed, t) ==
  [item EXCEPT
     !.name = IF Falsy(parsed.name) THEN @ ELSE parsed.name,
     !.description = IF Falsy(parsed.description) THEN @ ELSE parsed.description,
     !.createdAt = t,
     !.updatedAt = t]

\* The fields updateItem writes into items[itemIndex].
UpdatedItem(item, parsed, t) ==
  [item EXCEPT
     !.name = IF Falsy(parsed.name) THEN @ ELSE parsed.name,
     !.description = IF Falsy(parsed.description) THEN @ ELSE parsed.description,
     !.updatedAt = t]

updateItem(arr, id, body, clock, t) ==
  IF NoBody(body)
    THEN Outcome(ApiResponse(FALSE, NoProps, "Bad Request",
                             "Request body is required"), arr, clock)
  ELSE
  LET itemIndex == FindIndex(arr, id) IN
  IF itemIndex = 0
    THEN Outcome(ApiResponse(FALSE, NoProps, "Not Found", NotFoundMessage(id)),
                 arr, clock)
  ELSE
  LET parsed == JSONParse(body) IN
  IF parsed.threw
    THEN Outcome(ApiResponse(FALSE, NoProps, "Bad Request",
                             "Invalid JSON in request body"), arr, clock)
  ELSE
  LET updated == [arr EXCEPT ![itemIndex] = UpdatedItem(arr[itemIndex], parsed, t)]
  IN Outcome(ApiResponse(TRUE, [item |-> updated[itemIndex]], undefined,
                         "Item updated successfully"),
             updated, t)

\* A slip in deleteItem: no check of itemIndex, so that splice(-1, 1) takes
\* the last item off the array when no item has the id.
deleteItemUnchecked(arr, id, clock) ==
  LET itemIndex == FindIndex(arr, id)
      at == IF itemIndex = 0 THEN Len(arr) ELSE itemIndex
  IN IF Len(arr) = 0
       THEN Outcome(ApiResponse(TRUE, NoProps, undefined,
                                "Item deleted successfully"), arr, clock)
       ELSE Outcome(ApiResponse(TRUE, [item |-> arr[at]], undefined,
                                "Item deleted successfully"),
                    Splice(arr, at), clock)

deleteItem(arr, id, clock) ==
  LET itemIndex == FindIndex(arr, id) IN
  IF itemIndex = 0
    THEN Outcome(ApiResponse(FALSE, NoProps, "Not Found", NotFoundMessage(id)),
                 arr, clock)
    ELSE Outcome(ApiResponse(TRUE, [item |-> arr[itemIndex]], undefined,
                             "Item deleted successfully"),
                 Splice(arr, itemIndex), clock)

handleItemsApi(arr, method, pathParameters, body, clock, t1, t2) ==
  LET id == Prop(pathParameters, "id") IN
  CASE method = "GET" ->
         IF ~Falsy(id) THEN getItem(arr, id, clock) ELSE listItems(arr, clock)
    [] method = "POST" -> createItem(arr, body, clock, t1, t2)
    [] method = "PUT" ->
         IF ~Falsy(id) THEN updateItem(arr, id, body, clock, t1)
         ELSE Outcome(ApiResponse(FALSE, NoProps, "Bad Request",
                                  "Item ID is required for PUT requests"),
                      arr, clock)
    [] method = "DELETE" ->
         IF ~Falsy(id) THEN deleteItem(arr, id, clock)
         ELSE Outcome(ApiResponse(FALSE, NoProps, "Bad Request",
                                  "Item ID is required for DELETE requests"),
                      arr, clock)
    [] OTHER ->
         Outcome(ApiResponse(FALSE, NoProps, "Method Not Allowed",
                             "HTTP method " \o method \o " is not supported"),
                 arr, clock)

\* handler(event, context) of lambda/src/handler.ts.
MemHandler(arr, event, clock, t1, t2) ==
  IF event.httpMethod = "OPTIONS"
    THEN Outcome(createResponse(200,
                   [message |-> "CORS preflight successful"], CorsHeaders),
                 arr, clock)
  ELSE IF event.path = HealthPath
    THEN LET o == handleHealthCheck(arr, t1) IN
         Outcome(createResponse(200, o.response, CorsHeaders), o.store, o.clock)
  ELSE IF event.path = UndefinedPath
    \* path.startsWith throws a TypeError, which the catch block answers
    THEN Outcome(createResponse(500,
                   ApiResponse(FALSE, NoProps, "Internal Server Error",
                               "An unexpected error occurred"),
                   CatchHeaders),
                 arr, clock)
  ELSE IF StartsWithItems(event.path)
    THEN LET o == handleItemsApi(arr, event.httpMethod, event.pathParameters,
                                 event.body, clock, t1, t2) IN
         Outcome(createResponse(200, o.response, CorsHeaders), o.store, o.clock)
  ELSE Outcome(createResponse(404,
                 ApiResponse(FALSE, NoProps, "Not Found", "Path not found"),
                 CorsHeaders),
               arr, clock)

-----------------------------------------------------------------------------
(* The DynamoDB table behind docClient.send() *)

\* GetCommand: the result carries Item only when a record has the key.
GetCommand(tbl, id) == IF id \in DOMAIN tbl THEN [Item |-> tbl[id]] ELSE NoProps

\* PutCommand: writes the whole record under its key, replacing any other.
PutCommand(tbl, item) ==
  [k \in DOMAIN tbl \cup {item.id} |-> IF k = item.id THEN item ELSE tbl[k]]

\* DeleteCommand: removes the record with the key, if there is one.
DeleteCommand(tbl, id) == [k \in DOMAIN tbl \ {id} |-> tbl[k]]

\* UpdateCommand with a SET expression: writes the named attributes of the
\* record with the key, creating the record (key plus those attributes) when
\* there is none.
UpdateCommand(tbl, id, sets) ==
  LET old == IF id \in DOMAIN tbl THEN tbl[id] ELSE [id |-> id]
      new == [a \in DOMAIN old \cup DOMAIN sets |->
                IF a \in DOMAIN sets THEN sets[a] ELSE old[a]]
  IN [k \in DOMAIN tbl \cup {id} |-> IF k = id THEN new ELSE tbl[k]]

\* The fewest records one page of a scan holds when the table has more: a
\* page holds 1 MB and a record is at most 400 KB.
ScanPageMin == 2

\* What one ScanCommand may return, as the keys of the records in the order
\* returned: every arrangement of all the keys, or, when the records do not
\* fit one page, of the keys of the first page.  The handler sends one
\* ScanCommand and does not ask for the pages after the first.
ScanOrders(tbl) ==
  LET n == Cardinality(DOMAIN tbl) IN
  UNION {{o \in [1..m -> DOMAIN tbl] : \A i, j \in DOMAIN o : i # j => o[i] # o[j]} :
           m \in {n} \cup (ScanPageMin..(n - 1))}

\* ScanCommand with FilterExpression '#type = :type', :type = 'item': the
\* records of that type, in the order the table returns them.
ScanCommand(tbl, order) ==
  LET all == [i \in DOMAIN order |-> tbl[order[i]]]
  IN SelectSeq(all, LAMBDA r : Prop(r, "type") = "item")

-----------------------------------------------------------------------------
(* The DynamoDB handler *)

\* process.env.TABLE_NAME || ''
TABLE_NAME == ""

\* createResponse(statusCode, body) of the DynamoDB handler.
createResponseDdb(statusCode, body) == createResponse(statusCode, body, CorsHeaders)

\* A handler that throws hands back the error's message instead of a response.
Thrown(message) == [thrown |-> message]

\* One docClient.send(): the command sent and whether the call succeeded.
Send(command, ok) == [command |-> command, ok |-> ok]

\* What a handler of this variant hands back: the response or the error thrown,
\* the table after the call, the clock after its last reading, whether it
\* drew an id from randomUUID(), and the calls of docClient.send() it made,
\* in the order it made them.
DdbOutcome(response, tbl, clock, drew, sends) ==
  [response |-> response, store |-> tbl, clock |-> clock, drew |-> drew,
   sent |-> sends]

\* The n-th id randomUUID() hands out: ids never repeat.
randomUUID(n) == "uuid-" \o toString(n)

\* Array.prototype.sort with (a, b) => b.createdAt - a.createdAt: a stable
\* sort, largest createdAt first.
RECURSIVE SortByCreatedAtDesc(_)
SortByCreatedAtDesc(s) ==
  IF Len(s) <= 1 THEN s
  ELSE
    LET front == SortByCreatedAtDesc(SubSeq(s, 1, Len(s) - 1))
        x == s[Len(s)]
        k == Cardinality({i \in 1..Len(front) : front[i].createdAt >= x.createdAt})
    IN SubSeq(front, 1, k) \o <<x>> \o SubSeq(front, k + 1, Len(front))

\* A slip in handleHealthCheck: the service reported by what the table holds.
handleHealthCheckProbing(tbl, t) ==
  IF DOMAIN tbl = {}
    THEN DdbOutcome(createResponseDdb(503,
                      ApiResponse(FALSE, NoProps, undefined, "Service unavailable")),
                    tbl, t, FALSE, << >>)
    ELSE DdbOutcome(createResponseDdb(200,
                      ApiResponse(TRUE,
                                  [status |-> "healthy", environment |-> STAGE,
                                   timestamp |-> t, version |-> "1.0.0",
                                   table |-> TABLE_NAME],
                                  undefined, "Service is healthy and operational")),
                    tbl, t, FALSE, << >>)

handleHealthCheckDdb(tbl, t) ==
  DdbOutcome(createResponseDdb(200,
               ApiResponse(TRUE,
                           [status |-> "healthy", environment |-> STAGE,
                            timestamp |-> t, version |-> "1.0.0",
                            table |-> TABLE_NAME],
                           undefined, "Service is healthy and operational")),
             tbl, t, FALSE, << >>)

\* sendOk[i] tells whether the i-th docClient.send() of the invocation succeeds.
handleGetItems(tbl, order, clock, sendOk) ==
  IF ~sendOk[1] THEN DdbOutcome(Thrown("ScanCommand failed"), tbl, clock, FALSE,
                  <<Send("ScanCommand", FALSE)>>)
  ELSE
  LET sorted == SortByCreatedAtDesc(ScanCommand(tbl, order)) IN
  DdbOutcome(createResponseDdb(200,
               ApiResponse(TRUE, [items |-> sorted, count |-> Len(sorted)],
                           undefined, "Items retrieved successfully")),
             tbl, clock, FALSE, <<Send("ScanCommand", TRUE)>>)

handleGetItem(tbl, id, clock, sendOk) ==
  IF ~sendOk[1] THEN DdbOutcome(Thrown("GetCommand failed"), tbl, clock, FALSE,
                  <<Send("GetCommand", FALSE)>>)
  ELSE
  LET result == GetCommand(tbl, id) IN
  IF "Item" \notin DOMAIN result
    THEN DdbOutcome(createResponseDdb(404,
                      ApiResponse(FALSE, NoProps, undefined, "Item not found")),
                    tbl, clock, FALSE, <<Send("GetCommand", TRUE)>>)
    ELSE DdbOutcome(createResponseDdb(200,
                      ApiResponse(TRUE, [item |-> result.Item], undefined,
                                  "Item retrieved successfully")),
                    tbl, clock, FALSE, <<Send("GetCommand", TRUE)>>)

\* event.body || '{}'
BodyOrEmptyObject(body) ==
  IF NoBody(body)
    THEN [kind |-> "json", name |-> undefined, description |-> undefined]
    ELSE body

handleCreateItem(tbl, event, uuid, clock, t, sendOk) ==
  LET body == JSONParse(BodyOrEmptyObject(event.body)) IN
  IF body.threw
    THEN DdbOutcome(Thrown("SyntaxError"), tbl, clock, FALSE, << >>)
  ELSE IF Falsy(body.name) \/ Falsy(body.description)
    THEN DdbOutcome(createResponseDdb(400,
                      ApiResponse(FALSE, NoProps, undefined,
                                  "Missing required fields: name and description")),
                    tbl, clock, FALSE, << >>)
  ELSE
  LET item == [id |-> uuid, type |-> "item", name |-> body.name,
               description |-> body.description,
               createdAt |-> t, updatedAt |-> t]
  IN IF ~sendOk[1]
       THEN DdbOutcome(Thrown("PutCommand failed"), tbl, t, TRUE,
                  <<Send("PutCommand", FALSE)>>)
       ELSE DdbOutcome(createResponseDdb(201,
                         ApiResponse(TRUE, [item |-> item], undefined,
                                     "Item created successfully")),
                       PutCommand(tbl, item), t, TRUE, <<Send("PutCommand", TRUE)>>)

\* The attributes handleUpdateItem's update expression sets.
UpdateSets(body, t) ==
  LET names == (IF Falsy(body.name) THEN {} ELSE {"name"})
               \cup (IF Falsy(body.description) THEN {} ELSE {"description"})
               \cup {"updatedAt"}
  IN [a \in names |->
        CASE a = "name" -> body.name
          [] a = "description" -> body.description
          [] OTHER -> t]

\* handleUpdateItem after `await docClient.send(getCommand)` has found the
\* item: the UpdateCommand, sent to the table as it is by then, and the
\* response.
UpdateFound(tbl, id, body, t) ==
  LET updated == UpdateCommand(tbl, id, UpdateSets(body, t)) IN
  DdbOutcome(createResponseDdb(200,
               ApiResponse(TRUE, [item |-> updated[id]], undefined,
                           "Item updated successfully")),
             updated, t, FALSE,
             <<Send("GetCommand", TRUE), Send("UpdateCommand", TRUE)>>)

handleUpdateItem(tbl, id, event, clock, t, sendOk) ==
  LET body == JSONParse(BodyOrEmptyObject(event.body)) IN
  IF body.threw
    THEN DdbOutcome(Thrown("SyntaxError"), tbl, clock, FALSE, << >>)
  ELSE IF Falsy(body.name) /\ Falsy(body.description)
    THEN DdbOutcome(createResponseDdb(400,
                      ApiResponse(FALSE, NoProps, undefined,
                        "At least one field (name or description) must be provided")),
                    tbl, clock, FALSE, << >>)
  ELSE IF ~sendOk[1]
    THEN DdbOutcome(Thrown("GetCommand failed"), tbl, clock, FALSE,
                  <<Send("GetCommand", FALSE)>>)
  ELSE IF "Item" \notin DOMAIN GetCommand(tbl, id)
    THEN DdbOutcome(createResponseDdb(404,
                      ApiResponse(FALSE, NoProps, undefined, "Item not found")),
                    tbl, clock, FALSE, <<Send("GetCommand", TRUE)>>)
  ELSE IF ~sendOk[2]
    THEN DdbOutcome(Thrown("UpdateCommand failed"), tbl, t, FALSE,
                  <<Send("GetCommand", TRUE), Send("UpdateCommand", FALSE)>>)
  ELSE UpdateFound(tbl, id, body, t)

\* handleDeleteItem after `await docClient.send(getCommand)` has found the
\* item: the DeleteCommand, sent to the table as it is by then, and the
\* response.
DeleteFound(tbl, id, clock) ==
  DdbOutcome(createResponseDdb(200,
               ApiResponse(TRUE, NoProps, undefined,
                           "Item deleted successfully")),
             DeleteCommand(tbl, id), clock, FALSE,
             <<Send("GetCommand", TRUE), Send("DeleteCommand", TRUE)>>)

\* A slip in handleDeleteItem: a failed existence check is sent a second
\* time before the handler gives up.
handleDeleteItemRetrying(tbl, id, clock, sendOk) ==
  IF ~sendOk[1] /\ ~sendOk[2]
    THEN DdbOutcome(Thrown("GetCommand failed"), tbl, clock, FALSE,
                    <<Send("GetCommand", FALSE), Send("GetCommand", FALSE)>>)
  ELSE IF "Item" \notin DOMAIN GetCommand(tbl, id)
    THEN DdbOutcome(createResponseDdb(404,
                      ApiResponse(FALSE, NoProps, undefined, "Item not found")),
                    tbl, clock, FALSE,
                    IF sendOk[1] THEN <<Send("GetCommand", TRUE)>>
                    ELSE <<Send("GetCommand", FALSE), Send("GetCommand", TRUE)>>)
  ELSE DdbOutcome(createResponseDdb(200,
                    ApiResponse(TRUE, NoProps, undefined,
                                "Item deleted successfully")),
                  DeleteCommand(tbl, id), clock, FALSE,
                  <<Send("GetCommand", sendOk[1]), Send("DeleteCommand", TRUE)>>)

handleDeleteItem(tbl, id, clock, sendOk) ==
  IF ~sendOk[1]
    THEN DdbOutcome(Thrown("GetCommand failed"), tbl, clock, FALSE,
                  <<Send("GetCommand", FALSE)>>)
  ELSE IF "Item" \notin DOMAIN GetCommand(tbl, id)
    THEN DdbOutcome(createResponseDdb(404,
                      ApiResponse(FALSE, NoProps, undefined, "Item not found")),
                    tbl, clock, FALSE, <<Send("GetCommand", TRUE)>>)
  ELSE IF ~sendOk[2]
    THEN DdbOutcome(Thrown("DeleteCommand failed"), tbl, clock, FALSE,
                  <<Send("GetCommand", TRUE), Send("DeleteCommand", FALSE)>>)
  ELSE DeleteFound(tbl, id, clock)

\* The routing of handler(event, context), inside its try block.
DdbRoute(tbl, event, order, uuid, clock, t, sendOk) ==
  LET path == event.path
      method == event.httpMethod
  IN
  IF path = HealthPath /\ method = "GET"
    THEN handleHealthCheckDdb(tbl, t)
  ELSE IF path = ItemsPath /\ method = "GET"
    THEN handleGetItems(tbl, order, clock, sendOk)
  ELSE IF path = ItemsPath /\ method = "POST"
    THEN handleCreateItem(tbl, event, uuid, clock, t, sendOk)
  ELSE IF path = UndefinedPath
    \* path.startsWith throws a TypeError
    THEN DdbOutcome(Thrown("TypeError"), tbl, clock, FALSE, << >>)
  ELSE IF StartsWithItemsSlash(path) /\ method = "GET"
    THEN handleGetItem(tbl, LastSegment(path), clock, sendOk)
  ELSE IF StartsWithItemsSlash(path) /\ method = "PUT"
    THEN handleUpdateItem(tbl, LastSegment(path), event, clock, t, sendOk)
  ELSE IF StartsWithItemsSlash(path) /\ method = "DELETE"
    THEN handleDeleteItem(tbl, LastSegment(path), clock, sendOk)
  ELSE DdbOutcome(createResponseDdb(404,
                    ApiResponse(FALSE, NoProps, undefined, "Route not found")),
                  tbl, clock, FALSE, << >>)

\* handler(event, context) of the DynamoDB handler: the routing, and the catch
\* block that turns an error thrown below it into a 500 response.
DdbHandler(tbl, event, order, uuid, clock, t, sendOk) ==
  LET o == DdbRoute(tbl, event, order, uuid, clock, t, sendOk) IN
  IF "thrown" \in DOMAIN o.response
    THEN [o EXCEPT !.response =
            createResponseDdb(500,
              ApiResponse(FALSE, NoProps, o.response.thrown,
                          "Internal server error"))]
    ELSE o

-----------------------------------------------------------------------------
(* The deployment pipeline, lib/pipeline-stack.ts *)

\* A slip in the order of `stages`: the production deployment before the
\* approval.
StagesApprovalLast ==
  <<"Source", "Build", "DeployDev", "DeployProd", "ApprovalForProd">>

\* The stages of 'devops-portfolio-pipeline', in the order of its `stages`.
Stages == <<"Source", "Build", "DeployDev", "ApprovalForProd", "DeployProd">>

\* The stages whose action is a ManualApprovalAction.
ManualApprovalStages == {"ApprovalForProd"}

\* The commands of the build project whose exit status depends on the
\* revision: 'npm run lint', 'npm run test' and 'npm run build'.
BuildCommands == {"lint", "test", "build"}

\* The shell's `a || b`: b runs only when a fails, and its status is the
\* status of the list.
OrElse(a, b) == a \/ b

\* `echo` exits with status 0.
Echo == TRUE

\* The pre_build phase, given the commands that exit non-zero on the
\* revision: the phase succeeds when each entry of `commands` does.
PreBuild(failed) ==
  /\ OrElse("lint" \notin failed, Echo)
  /\ OrElse("test" \notin failed, Echo)
  /\ "build" \notin failed

\* The build phase.
BuildPhase(failed) == "build" \notin failed

\* The build project: a build succeeds when its phases do.
BuildProject(failed) == PreBuild(failed) /\ BuildPhase(failed)

\* An execution: the stage it is in (0: not started), the status of that
\* stage's action, the state of its manual approval, the stages whose
\* action has succeeded, in the order they did, and the commands that
\* exited non-zero in its build.
NoExecution ==
  [stage |-> 0, status |-> "NotStarted", approval |-> "None", done |-> << >>,
   failed |-> {}]

-----------------------------------------------------------------------------
(* The deployment scripts, scripts/full-deploy.sh, build.sh, package.sh and
   deploy.sh *)

\* A command of a script, and what the script does when it exits non-zero:
\* every script sets -e, and the commands it tests with `if` have `exit 1`
\* in the else branch.
Command(name, onFailure) == [name |-> name, onFailure |-> onFailure]

\* A slip in build.sh: the lint and test results reported and passed over,
\* as in the pipeline's buildspec.
BuildScriptLenient ==
  << Command("npm ci", "exit"), Command("lambda: npm ci", "exit"),
     Command("npm run lint", "continue"), Command("npm test", "continue"),
     Command("npm run build", "exit"), Command("cdk synth", "exit") >>

\* build.sh, steps 1 to 5.
BuildScript ==
  << Command("npm ci", "exit"), Command("lambda: npm ci", "exit"),
     Command("npm run lint", "exit"), Command("npm test", "exit"),
     Command("npm run build", "exit"), Command("cdk synth", "exit") >>

\* package.sh: the old package removed, the new one written and its file
\* count verified.
PackageScript ==
  << Command("rm -f source.zip", "exit"), Command("zip -r source.zip", "exit"),
     Command("verify file count", "exit") >>

\* deploy.sh: the package looked for, uploaded, and the pipeline started.
DeployScript ==
  << Command("test -f source.zip", "exit"), Command("aws s3 cp", "exit"),
     Command("aws codepipeline start-pipeline-execution", "exit") >>

\* The steps of full-deploy.sh, each `if bash <script>; then ... else exit 1`.
Steps == <<"build", "package", "deploy">>

ScriptOf(step) ==
  CASE step = "build" -> BuildScript
    [] step = "package" -> PackageScript
    [] step = "deploy" -> DeployScript

\* The exit statuses a command can have (TRUE: zero): the test for the
\* package is decided by the working directory, rm -f does not fail.
Results(name, zip) ==
  CASE name = "test -f source.zip" -> {zip}
    [] name = "rm -f source.zip" -> {TRUE}
    [] OTHER -> BOOLEAN

\* Whether source.zip exists after a command.
ZipAfter(name, ok, zip) ==
  CASE name = "rm -f source.zip" -> FALSE
    [] name = "zip -r source.zip" -> ok
    [] OTHER -> zip

\* A run of full-deploy.sh: how many runs have started, the step and the
\* command within its script that is next, the steps started and the commands
\* run so far in this run, in order, the commands that exited non-zero, the
\* status of the run, and whether source.zip exists.
NoRun ==
  [n |-> 0, step |-> 0, command |-> 0, started |-> << >>, log |-> << >>,
   failed |-> {}, status |-> "NotRun", zip |-> FALSE]

-----------------------------------------------------------------------------
(* Invocations *)

\* The ids requests name: every id the deployed variant can hand out within
\* the bounds, and one it never hands out.
RequestIds(v) ==
  {IF v = "mem" THEN toString(n) ELSE randomUUID(n) : n \in 1..MaxItems} \cup {"999"}

Event(method, path, pathParameters, body) ==
  [httpMethod |-> method, path |-> path, pathParameters |-> pathParameters,
   body |-> body]

\* The events API Gateway hands the handler for the routes of the item API:
\* the list, a POST on the collection with any body, and GET, PUT (with any
\* body) and DELETE on an item, with the id of the path as pathParameters.id.
ListEvents      == {Event("GET", ItemsPath, NoProps, NullBody)}
GetEvents(v)    == {Event("GET", ItemPath(i), [id |-> i], NullBody) : i \in RequestIds(v)}
DeleteEvents(v) == {Event("DELETE", ItemPath(i), [id |-> i], NullBody) : i \in RequestIds(v)}
PostEvents      == {Event("POST", ItemsPath, NoProps, b) : b \in Bodies}
PutEvents(v)    == {Event("PUT", ItemPath(i), [id |-> i], b) : i \in RequestIds(v), b \in Bodies}

\* The id a by-id request names, as the deployed variant reads it.
TargetId(v, event) ==
  IF v = "mem" THEN Prop(event.pathParameters, "id") ELSE LastSegment(event.path)

NoEvent == Event("NONE", << >>, NoProps, NullBody)

NoResponse == createResponse(0, [message |-> "no invocation yet"], NoProps)

\* An invocation that runs while others do: where it is (free: not started;
\* awaiting: suspended at its await; returned), its event, the response it
\* holds or has returned, and, in the in-memory handler, what the held
\* ApiResponse refers to: the array `items` itself (data.items), the object
\* at index `at` of the array (data.item), or nothing that is still in the
\* array.
NoCall ==
  [pc |-> "free", event |-> NoEvent, resp |-> NoResponse, ref |-> "none", at |-> 0]

\* The history after an invocation, read off its event and response.
DeletedAfter(v, event, response) ==
  IF Prop(response.body, "message") = "Item deleted successfully"
    THEN deleted \cup {TargetId(v, event)}
    ELSE deleted

LastCreatedAfter(v, event, response) ==
  LET message == Prop(response.body, "message") IN
  IF message = "Item created successfully"
    THEN [id |-> response.body.data.item.id, name |-> event.body.name,
          description |-> event.body.description]
  ELSE IF /\ message \in {"Item updated successfully", "Item deleted successfully"}
          /\ Prop(lastCreated, "id") = TargetId(v, event)
    THEN NoProps
  ELSE lastCreated

LastReadAfter(v, event, response) ==
  LET message == Prop(response.body, "message") IN
  IF message = "Item retrieved successfully"
    THEN [id |-> TargetId(v, event), data |-> response.body.data,
          times |-> IF Prop(lastRead, "id") = TargetId(v, event)
                      THEN 2 ELSE 1]
  ELSE IF message \in {"Item created successfully", "Item updated successfully",
                       "Item deleted successfully"}
    THEN NoProps
  ELSE lastRead

InitStore ==
  /\ variant \in {"mem", "ddb"}
  /\ items = IF variant = "mem" THEN SampleItems ELSE << >>
  /\ table = << >>
  /\ uuidCount = 0
  /\ now = SampleTime
  /\ req = NoEvent
  /\ resp = NoResponse
  /\ deleted = {}
  /\ lastCreated = NoProps
  /\ lastRead = NoProps
  /\ executions = [e \in 1..MaxExecutions |-> NoExecution]
  /\ sent = << >>
  /\ run = NoRun
  /\ calls = [r \in 1..MaxRequests |-> NoCall]

Init == InitStore /\ audit = FALSE

InitAudit == InitStore /\ audit = TRUE

\* What the clock may show at a reading after one that showed t.  Only the
\* order of the timestamps matters, so between two readings the clock stands
\* still or advances by one tick.
Readings(t) == {u \in {t, t + 1} : u <= MaxClock}

\* The outcomes an invocation of the deployed handler with `event` can have
\* in the current state.  In the in-memory handler t1 and t2 are what the
\* clock shows at its first and second reading (only createItem reads it
\* twice).  In the DynamoDB handler sendOk tells which docClient.send() calls
\* succeed, and only the scan of the list route depends on the order the
\* table returns.
OutcomesWhen(event, sendOk) ==
  IF variant = "mem"
    THEN {MemHandler(items, event, now, t[1], t[2]) :
            t \in {u \in Readings(now) \X Readings(now) :
                     /\ u[1] <= u[2]
                     /\ event.httpMethod # "POST" => u[2] = u[1]}}
    ELSE {DdbHandler(table, event, order, randomUUID(uuidCount + 1), now, t,
                     sendOk) :
            t \in Readings(now),
            order \in IF event \in ListEvents THEN ScanOrders(table)
                      ELSE {CHOOSE o \in ScanOrders(table) : TRUE}}

\* The outcomes when every docClient.send() succeeds.
Outcomes(event) == OutcomesWhen(event, <<TRUE, TRUE>>)

\* The bounds of the model: the array holds at most MaxItems items, and
\* randomUUID() is drawn at most MaxItems times.
WithinBounds(o) ==
  IF variant = "mem" THEN Len(o.store) <= MaxItems
  ELSE o.drew => uuidCount < MaxItems

\* The state after an invocation with `event` that had the outcome o.
Respond(event, o) ==
    /\ items' = IF variant = "mem" THEN o.store ELSE items
    /\ table' = IF variant = "ddb" THEN o.store ELSE table
    /\ uuidCount' = IF variant = "ddb" /\ o.drew THEN uuidCount + 1 ELSE uuidCount
    /\ now' = o.clock
    /\ req' = event
    /\ resp' = o.response
    /\ sent' = IF variant = "ddb" THEN o.sent ELSE << >>
    /\ deleted' = IF audit THEN DeletedAfter(variant, event, o.response)
                  ELSE deleted
    /\ lastCreated' = IF audit THEN LastCreatedAfter(variant, event, o.response)
                      ELSE lastCreated
    /\ lastRead' = IF audit THEN LastReadAfter(variant, event, o.response)
                   ELSE lastRead
    /\ UNCHANGED <<variant, audit, executions, run, calls>>

\* One invocation of the deployed handler.
Invoke(event) ==
  \E o \in Outcomes(event) : WithinBounds(o) /\ Respond(event, o)

List   == \E e \in ListEvents : Invoke(e)
Get    == \E e \in GetEvents(variant) : Invoke(e)
Post   == \E e \in PostEvents : Invoke(e)
Put    == \E e \in PutEvents(variant) : Invoke(e)
Delete == \E e \in DeleteEvents(variant) : Invoke(e)

Next == List \/ Get \/ Post \/ Put \/ Delete

\* The handler under any sequence of invocations.
Spec == Init /\ [][Next]_vars

\* The same, with the history of deletes and creates kept.
SpecAudit == InitAudit /\ [][Next]_vars

-----------------------------------------------------------------------------
(* Invocations on every route, with a store that may fail *)

ValidBody    == [kind |-> "json", name |-> "A", description |-> "D"]
NameOnlyBody == [kind |-> "json", name |-> "A", description |-> undefined]

\* The item routes, with fewer bodies than above.
ItemEvents(v) ==
  ListEvents \cup GetEvents(v) \cup DeleteEvents(v)
    \cup {e \in PostEvents : e.body \in {ValidBody, NotJson}}
    \cup {e \in PutEvents(v) : e.body = NameOnlyBody}

\* OPTIONS on the paths of the API and on a path outside it.
OptionsEvents ==
  {Event("OPTIONS", ItemsPath, NoProps, NullBody),
   Event("OPTIONS", ItemPath("1"), [id |-> "1"], NullBody),
   Event("OPTIONS", HealthPath, NoProps, NullBody),
   Event("OPTIONS", OtherPath, NoProps, NullBody)}

HealthEvent == Event("GET", HealthPath, NoProps, NullBody)

\* Requests outside the six routes and OPTIONS: another method on /health, a
\* method the collection or an item does not have, DELETE on the collection,
\* a path outside the API, and a path that only starts like the collection's.
UnroutedEvents ==
  {Event("POST", HealthPath, NoProps, NullBody),
   Event("PATCH", ItemsPath, NoProps, NullBody),
   Event("PATCH", ItemPath("1"), [id |-> "1"], NullBody),
   Event("DELETE", ItemsPath, NoProps, NullBody),
   Event("GET", OtherPath, NoProps, NullBody),
   Event("GET", ItemsFooPath, NoProps, NullBody)}

\* An invocation with an event that is not an API Gateway proxy event.
DirectEvent == Event("GET", UndefinedPath, NoProps, NullBody)

\* Which of the invocation's docClient.send() calls succeed; the in-memory
\* handler makes none.
SendResults(v) ==
  IF v = "mem" THEN {<<TRUE, TRUE>>} ELSE BOOLEAN \X BOOLEAN

\* One invocation, with a store that may be unavailable.
Serve(event) ==
  \E sendOk \in SendResults(variant) :
    \E o \in OutcomesWhen(event, sendOk) : WithinBounds(o) /\ Respond(event, o)

Items    == \E e \in ItemEvents(variant) : Serve(e)
Options  == \E e \in OptionsEvents : Serve(e)
Health   == Serve(HealthEvent)
Unrouted == \E e \in UnroutedEvents : Serve(e)
Direct   == Serve(DirectEvent)

NextRoutes == Items \/ Options \/ Health \/ Unrouted \/ Direct

\* The handler under any sequence of invocations on any route.
SpecRoutes == Init /\ [][NextRoutes]_vars

-----------------------------------------------------------------------------
(* Reads between writes, with the history kept *)

Reads ==
  \E e \in {HealthEvent} \cup ListEvents \cup GetEvents(variant) : Invoke(e)

Writes ==
  \E e \in {w \in ItemEvents(variant) : w.httpMethod # "GET"} : Invoke(e)

NextReads == Reads \/ Writes

SpecReads == InitAudit /\ [][NextReads]_vars

-----------------------------------------------------------------------------
(* Requests on an item that reach the handler without pathParameters *)

\* GET, PUT and DELETE on an item's path with pathParameters null, as in a
\* direct invocation or behind a route that declares no {id}.
BareEvents(v) ==
  {Event("GET", ItemPath(i), NoProps, NullBody) : i \in RequestIds(v)}
    \cup {Event("DELETE", ItemPath(i), NoProps, NullBody) : i \in RequestIds(v)}
    \cup {Event("PUT", ItemPath(i), NoProps, NameOnlyBody) : i \in RequestIds(v)}

Routed == \E e \in ItemEvents(variant) : Invoke(e)

Bare == \E e \in BareEvents(variant) : Invoke(e)

NextPaths == Routed \/ Bare

SpecPaths == Init /\ [][NextPaths]_vars

-----------------------------------------------------------------------------
(* Executions of the pipeline *)

apiVars ==
  <<variant, items, table, uuidCount, now, req, resp, audit, deleted, lastCreated,
    lastRead, sent>>

handlerVars == <<apiVars, run, calls>>

\* A stage runs one execution at a time.
StageFree(i) ==
  \A e \in 1..MaxExecutions :
    ~(executions[e].stage = i /\ executions[e].status = "InProgress")

\* The execution enters stage i; entering a manual approval requests it.
Enter(e, i) ==
  /\ StageFree(i)
  /\ executions' =
       [executions EXCEPT ![e].stage = i, ![e].status = "InProgress",
          ![e].approval = IF Stages[i] \in ManualApprovalStages
                            THEN "Pending" ELSE @]
  /\ UNCHANGED handlerVars

\* The source action finds a change: the next execution starts.
StartExecution ==
  \E e \in 1..MaxExecutions :
    /\ executions[e].stage = 0
    /\ \A d \in 1..(e - 1) : executions[d].stage > 0
    /\ Enter(e, 1)

\* The action of the execution's stage ends; a manual approval ends by the
\* approver's answer (or, rejected, by its timeout).
Finish(e, manual, status, approval) ==
  LET x == executions[e] IN
  /\ x.status = "InProgress"
  /\ (Stages[x.stage] \in ManualApprovalStages) = manual
  /\ executions' =
       [executions EXCEPT
          ![e].status = status,
          ![e].approval = approval,
          ![e].done = IF status = "Succeeded" THEN Append(@, Stages[x.stage])
                      ELSE @]
  /\ UNCHANGED handlerVars

InStage(e, name) ==
  executions[e].stage > 0 /\ Stages[executions[e].stage] = name

\* The action of a stage other than Build and the approval ends.
ActionSucceeds ==
  \E e \in 1..MaxExecutions :
    /\ ~InStage(e, "Build")
    /\ Finish(e, FALSE, "Succeeded", executions[e].approval)

ActionFails ==
  \E e \in 1..MaxExecutions :
    /\ ~InStage(e, "Build")
    /\ Finish(e, FALSE, "Failed", executions[e].approval)

\* The CodeBuildAction ends: the build project has run on the revision, on
\* which some of its commands exit non-zero.
BuildEnds ==
  \E e \in 1..MaxExecutions : \E failed \in SUBSET BuildCommands :
    /\ InStage(e, "Build")
    /\ executions[e].status = "InProgress"
    /\ executions' =
         [executions EXCEPT
            ![e].failed = failed,
            ![e].status = IF BuildProject(failed) THEN "Succeeded" ELSE "Failed",
            ![e].done = IF BuildProject(failed) THEN Append(@, "Build") ELSE @]
    /\ UNCHANGED handlerVars

Approve == \E e \in 1..MaxExecutions : Finish(e, TRUE, "Succeeded", "Approved")

Reject == \E e \in 1..MaxExecutions : Finish(e, TRUE, "Failed", "Rejected")

\* An execution whose stage has succeeded moves on to the next stage.
Transition ==
  \E e \in 1..MaxExecutions :
    /\ executions[e].status = "Succeeded"
    /\ executions[e].stage < Len(Stages)
    /\ Enter(e, executions[e].stage + 1)

NextPipeline ==
  \/ StartExecution \/ ActionSucceeds \/ ActionFails \/ BuildEnds
  \/ Approve \/ Reject \/ Transition

SpecPipeline == Init /\ [][NextPipeline]_vars

-----------------------------------------------------------------------------
(* Runs of scripts/full-deploy.sh *)

\* full-deploy.sh is started (again, once the run before has exited).
StartRun ==
  /\ run.status # "Running"
  /\ run.n < MaxRuns
  /\ run' = [NoRun EXCEPT !.n = run.n + 1, !.step = 1, !.command = 1,
                          !.started = <<Steps[1]>>, !.status = "Running",
                          !.zip = run.zip]
  /\ UNCHANGED <<apiVars, executions, calls>>

\* The run after the command that is next has exited with status `ok`.
AfterCommand(r, ok) ==
  LET script == ScriptOf(Steps[r.step])
      c == script[r.command]
      ran == [r EXCEPT !.log = Append(@, c.name),
                       !.failed = IF ok THEN @ ELSE @ \cup {c.name},
                       !.zip = ZipAfter(c.name, ok, @)]
  IN IF ~ok /\ c.onFailure = "exit"
       THEN [ran EXCEPT !.status = "Exit1"]
     ELSE IF r.command < Len(script)
       THEN [ran EXCEPT !.command = @ + 1]
     ELSE IF r.step < Len(Steps)
       THEN [ran EXCEPT !.step = @ + 1, !.command = 1,
                        !.started = Append(@, Steps[r.step + 1])]
     ELSE [ran EXCEPT !.status = "Exit0"]

RunCommand(ok) ==
  /\ run.status = "Running"
  /\ ok \in Results(ScriptOf(Steps[run.step])[run.command].name, run.zip)
  /\ run' = AfterCommand(run, ok)
  /\ UNCHANGED <<apiVars, executions, calls>>

CommandSucceeds == RunCommand(TRUE)

CommandFails == RunCommand(FALSE)

NextScripts == StartRun \/ CommandSucceeds \/ CommandFails

SpecScripts == Init /\ [][NextScripts]_vars

-----------------------------------------------------------------------------
(* Creates, deletes and lists on a store of up to MaxRecords items *)

WithinRecords(o) ==
  IF variant = "mem" THEN Len(o.store) <= MaxRecords
  ELSE o.drew => uuidCount < MaxRecords

Fill(event) ==
  \E o \in Outcomes(event) : WithinRecords(o) /\ Respond(event, o)

FillCreate == Fill(Event("POST", ItemsPath, NoProps, ValidBody))
FillDelete == \E e \in DeleteEvents(variant) : Fill(e)
FillList   == \E e \in ListEvents : Fill(e)

NextFill == FillCreate \/ FillDelete \/ FillList

SpecFill == Init /\ [][NextFill]_vars

-----------------------------------------------------------------------------
(* Properties *)

\* The store of the deployed variant, and the ids of its items.
Store == IF variant = "mem" THEN items ELSE table

LiveIds ==
  IF variant = "mem" THEN {items[i].id : i \in 1..Len(items)} ELSE DOMAIN table

\* The items a store holds.
ItemsOf(store) ==
  IF variant = "mem" THEN {store[i] : i \in 1..Len(store)}
  ELSE {store[k] : k \in DOMAIN store}

Succeeded(response) ==
  "success" \in DOMAIN response.body /\ response.body.success

Failed(response, error) ==
  /\ "success" \in DOMAIN response.body
  /\ ~response.body.success
  /\ response.body.error = error

\* A response that reports a failure the way the deployed variant does: the
\* DynamoDB handler by the HTTP status, the in-memory handler by status 200
\* with success:false and `error` in the body.
Reports(response, status, error) ==
  IF variant = "mem"
    THEN response.statusCode = 200 /\ Failed(response, error)
    ELSE response.statusCode = status /\ ~Succeeded(response)

\* A response that reports it by the HTTP status or in the body.
ReportsEitherWay(response, status, error) ==
  response.statusCode = status \/ Failed(response, error)

GetEvent(id) == Event("GET", ItemPath(id), [id |-> id], NullBody)

\* The route an event asks for.
IsList(e)   == e.httpMethod = "GET" /\ e.path = ItemsPath
IsGet(e)    == e.httpMethod = "GET" /\ StartsWithItemsSlash(e.path)
IsPost(e)   == e.httpMethod = "POST" /\ e.path = ItemsPath
IsPut(e)    == e.httpMethod = "PUT" /\ StartsWithItemsSlash(e.path)
IsDelete(e) == e.httpMethod = "DELETE" /\ StartsWithItemsSlash(e.path)

\* A JSON body that supplies a non-empty name or a non-empty description.
SuppliesAField(body) ==
  body.kind = "json" /\ (~Falsy(body.name) \/ ~Falsy(body.description))

\* A body without a non-empty name or without a non-empty description.
LacksAField(body) ==
  body.kind \in {"null", "json"} /\ (Falsy(body.name) \/ Falsy(body.description))

\* Over a step: the store is as it was.
StoreUnchanged == items' = items /\ table' = table

\* Over a step: every item of the store keeps its place (or key) and its
\* value of `field`.
KeepsField(field) ==
  IF variant = "mem"
    THEN /\ Len(items') = Len(items)
         /\ \A i \in 1..Len(items) : items'[i][field] = items[i][field]
    ELSE /\ DOMAIN table' = DOMAIN table
         /\ \A k \in DOMAIN table : table'[k][field] = table[k][field]

\* A GET, DELETE or PUT (with a body that supplies a field) that names `id`.
AsksFor(e, id) ==
  /\ IsGet(e) \/ IsDelete(e) \/ (IsPut(e) /\ SuppliesAField(e.body))
  /\ TargetId(variant, e) = id

\* C1: in every reachable state no two live items have the same id (in the
\* in-memory array no id occurs twice; in the table every record is stored
\* under its own id).
C1_UniqueIds ==
  /\ variant = "mem" =>
       \A i, j \in 1..Len(items) : items[i].id = items[j].id => i = j
  /\ variant = "ddb" => \A k \in DOMAIN table : table[k].id = k

\* C2: once a DELETE on an id has succeeded, the id is never live again, and
\* every later GET, DELETE or PUT (with a body that supplies a field) on it
\* reports not-found, by the status or in the body.
C2_DeleteTerminal ==
  [][/\ \A id \in deleted' : id \notin LiveIds'
     /\ \A id \in deleted :
          AsksFor(req', id) => ReportsEitherWay(resp', 404, "Not Found")]_vars

\* C3: the list operation returns the items sorted by createdAt, newest first.
C3_ListNewestFirst ==
  (IsList(req) /\ Succeeded(resp)) =>
    LET list == resp.body.data.items IN
    \A i, j \in 1..Len(list) : i < j => list[i].createdAt >= list[j].createdAt

\* C4: a successful PUT that supplies no description leaves every stored
\* description unchanged, one that supplies no name leaves every stored name
\* unchanged, and in both cases every id and createdAt is unchanged and the
\* item returned is the stored item the request names.
C4_UpdatePartiality ==
  [][(IsPut(req') /\ Succeeded(resp')) =>
       /\ Falsy(req'.body.description) => KeepsField("description")
       /\ Falsy(req'.body.name) => KeepsField("name")
       /\ KeepsField("id")
       /\ KeepsField("createdAt")
       /\ resp'.body.data.item.id = TargetId(variant, req')
       /\ resp'.body.data.item \in ItemsOf(Store')]_vars

\* C4's case: in the DynamoDB handler a PUT with only a name has renamed an
\* item, which is stored with the description it was created with.
C4_Witness ==
  /\ variant = "ddb"
  /\ IsPut(req)
  /\ req.body.name = "A" /\ Falsy(req.body.description)
  /\ Succeeded(resp)
  /\ resp.body.data.item.name = "A"
  /\ resp.body.data.item.description = "D"
  /\ resp.body.data.item \in ItemsOf(Store)

\* C5: a PUT on a live id whose JSON body has neither a non-empty name nor a
\* non-empty description is rejected as a bad request, by the status or in
\* the body, and leaves the store as it was.
C5_EmptyUpdateRejected ==
  [][(/\ IsPut(req')
      /\ req'.body.kind = "json"
      /\ ~SuppliesAField(req'.body)
      /\ TargetId(variant, req') \in LiveIds)
     => /\ ReportsEitherWay(resp', 400, "Bad Request")
        /\ StoreUnchanged]_vars

C7_MalformedBodyRejected ==
  [][(/\ IsPost(req') \/ IsPut(req')
      /\ req'.body = NotJson
      /\ IsPut(req') => TargetId(variant, req') \in LiveIds)
     => /\ ReportsEitherWay(resp', 400, "Bad Request")
        /\ resp'.statusCode # 500
        /\ StoreUnchanged]_vars

\* A PUT (with a body that supplies a field) or a DELETE on an id that no live
\* item has.
MissesItsTarget(e) ==
  /\ IsDelete(e) \/ (IsPut(e) /\ SuppliesAField(e.body))
  /\ TargetId(variant, e) \notin LiveIds

FoundItsItem ==
  /\ resp'.statusCode = 200
  /\ Succeeded(resp')
  /\ resp'.body.data.item.id = TargetId(variant, req')
  /\ resp'.body.data.item \in ItemsOf(Store)

C10_RoundTrip ==
  [][("id" \in DOMAIN lastCreated /\ req' = GetEvent(lastCreated.id)) =>
       /\ Succeeded(resp')
       /\ resp'.body.data.item.id = lastCreated.id
       /\ resp'.body.data.item.name = lastCreated.name
       /\ resp'.body.data.item.description = lastCreated.description]_vars

\* What a list response returns and what the store holds, as bags of items.
RECURSIVE SeqToBag(_)
SeqToBag(seq) ==
  IF seq = << >> THEN EmptyBag
  ELSE SetToBag({seq[1]}) (+) SeqToBag(Tail(seq))

StoreBag ==
  IF variant = "mem" THEN SeqToBag(items)
  ELSE SetToBag({table[k] : k \in DOMAIN table})

\* C11: a list that succeeds returns every live item exactly once and nothing
\* else, with count the number of items returned; on an empty store that is
\* the empty collection with count 0.
C11_ListComplete ==
  IsList(req) =>
    /\ Succeeded(resp)
    /\ resp.statusCode = 200
    /\ SeqToBag(resp.body.data.items) = StoreBag
    /\ resp.body.data.count = Len(resp.body.data.items)
    /\ Store = << >> => resp.body.data.items = << >> /\ resp.body.data.count = 0

\* The three read routes.
IsHealth(e) == e.httpMethod = "GET" /\ e.path = HealthPath

IsRead(e) == IsHealth(e) \/ IsList(e) \/ IsGet(e)

\* C12: GET /health, the list and GET by id leave the store as it was, and a
\* GET by id that succeeds returns the data the last successful GET of the
\* same id returned when no create, update or delete has succeeded since.
C12_ReadsIdempotent ==
  [][/\ IsRead(req') => StoreUnchanged
     /\ (/\ IsGet(req')
         /\ Succeeded(resp')
         /\ Prop(lastRead, "id") = TargetId(variant, req'))
        => resp'.body.data = lastRead.data]_vars

\* C12's case: the same id has been read twice in a row with no write in
\* between, the clock having moved on since the items were created.
C12_Witness ==
  /\ IsGet(req)
  /\ Succeeded(resp)
  /\ Prop(lastRead, "times") = 2
  /\ lastRead.data = resp.body.data
  /\ now > resp.body.data.item.updatedAt

\* A request outside the six routes that is not an OPTIONS request.
IsUnrouted(e) ==
  /\ e.httpMethod \notin {"OPTIONS", "NONE"}
  /\ e.path # UndefinedPath
  /\ ~(IsRead(e) \/ IsPost(e) \/ IsPut(e) \/ IsDelete(e))

\* C13: a request outside the six routes that is not an OPTIONS request is
\* refused (status 404, or success:false with an error in the body), with
\* success:false and no data, and leaves the store as it was.
C13_UnknownRouteRefused ==
  [][IsUnrouted(req') =>
       /\ "success" \in DOMAIN resp'.body
       /\ ~resp'.body.success
       /\ resp'.statusCode = 404 \/ resp'.body.error # undefined
       /\ Prop(resp'.body, "data") \in {undefined, NoProps}
       /\ StoreUnchanged]_vars

\* C14: an OPTIONS request on any path is answered with status 200 and the
\* CORS headers, with no item data, and leaves the store as it was.
C14_OptionsAnswered ==
  [][req'.httpMethod = "OPTIONS" =>
       /\ resp'.statusCode = 200
       /\ resp'.headers = CorsHeaders
       /\ "data" \notin DOMAIN resp'.body
       /\ StoreUnchanged]_vars

\* C15: every response the handler returns carries the four CORS headers
\* with their fixed values.
C15_CorsOnEveryResponse ==
  req # NoEvent => resp.headers = CorsHeaders

\* The messages of the errors that reach the handler's catch block.
ThrownMessages ==
  {"TypeError", "SyntaxError", "ScanCommand failed", "GetCommand failed",
   "PutCommand failed", "UpdateCommand failed", "DeleteCommand failed"}

\* C16: an invocation in which the routing, a handler or a store call throws
\* is answered with status 500, and every 500 response has success:false,
\* message "Internal server error" and the error's message in `error`.
C16_SingleRecoveryBoundary ==
  [][/\ req' = DirectEvent => resp'.statusCode = 500
     /\ (variant = "ddb" /\ (IsPost(req') \/ IsPut(req')) /\ req'.body = NotJson)
        => resp'.statusCode = 500
     /\ \A e \in ListEvents \cup GetEvents(variant) \cup DeleteEvents(variant) :
          \A o \in OutcomesWhen(e, <<FALSE, TRUE>>) :
            variant = "ddb" => o.response.statusCode = 500 /\ o.store = table
     /\ resp'.statusCode = 500 =>
          /\ "success" \in DOMAIN resp'.body /\ ~resp'.body.success
          /\ resp'.body.message = "Internal server error"
          /\ resp'.body.error \in ThrownMessages]_vars

\* Over a step: every item that is in the store before and after has the
\* createdAt it had.  The array changes by one write in place, one push or
\* one splice; the table by one record.
KeepsCreatedAt ==
  IF variant = "mem"
    THEN CASE Len(items') = Len(items) ->
                \A i \in 1..Len(items) : items'[i].createdAt = items[i].createdAt
           [] Len(items') = Len(items) + 1 ->
                \A i \in 1..Len(items) : items'[i].createdAt = items[i].createdAt
           [] Len(items') = Len(items) - 1 ->
                \E k \in 1..Len(items) :
                  /\ \A i \in 1..(k - 1) : items'[i].createdAt = items[i].createdAt
                  /\ \A i \in k..Len(items') :
                       items'[i].createdAt = items[i + 1].createdAt
           [] OTHER -> FALSE
    ELSE \A k \in DOMAIN table \cap DOMAIN table' :
           table'[k].createdAt = table[k].createdAt

\* C17: no step changes the createdAt of an item, and after every step every
\* stored item has updatedAt >= createdAt.
C17_Timestamps ==
  [][/\ KeepsCreatedAt
     /\ \A item \in ItemsOf(Store') : item.updatedAt >= item.createdAt]_vars

\* C17's case: in the DynamoDB handler an item has been updated at a later
\* reading of the clock than the one it was created at.
C17_Witness ==
  /\ variant = "ddb"
  /\ IsPut(req)
  /\ Succeeded(resp)
  /\ resp.body.data.item \in ItemsOf(Store)
  /\ resp.body.data.item.updatedAt > resp.body.data.item.createdAt

\* C18: GET /health is answered with status 200, success:true, data.status
\* "healthy" and data.environment the configured stage, and in every state,
\* whether or not the store's calls fail, it has only such answers and leaves
\* the store as it is.
C18_HealthNeverFails ==
  LET Healthy(response) ==
        /\ response.statusCode = 200
        /\ Succeeded(response)
        /\ response.body.data.status = "healthy"
        /\ response.body.data.environment = STAGE
  IN /\ IsHealth(req) => Healthy(resp)
     /\ \A sendOk \in SendResults(variant) :
          \A o \in OutcomesWhen(HealthEvent, sendOk) :
            Healthy(o.response) /\ o.store = Store

\* C18's case: GET /health has been answered with the store empty.
C18_Witness ==
  /\ IsHealth(req)
  /\ resp.statusCode = 200
  /\ resp.body.data.status = "healthy"
  /\ Store = << >>

\* C19: in the in-memory handler every request on a path that starts with
\* /api/v1/items, other than OPTIONS, is answered with status 200, a failure
\* being told by success:false and the error in the body; status 404 is
\* returned only for paths outside /health and /api/v1/items, and status 500
\* only when an exception was caught.
C19_InMemoryAlways200 ==
  [][variant = "mem" =>
       /\ (req'.httpMethod # "OPTIONS" /\ StartsWithItems(req'.path)) =>
            /\ resp'.statusCode = 200
            /\ "success" \in DOMAIN resp'.body
            /\ ~resp'.body.success =>
                 resp'.body.error \in {"Not Found", "Bad Request", "Method Not Allowed"}
       /\ resp'.statusCode = 404 =>
            req'.path # HealthPath /\ ~StartsWithItems(req'.path)
       /\ resp'.statusCode = 500 => req' = DirectEvent]_vars

\* C19's case: the in-memory handler has answered a method the collection
\* does not have with status 200 and error "Method Not Allowed".
C19_Witness ==
  /\ variant = "mem"
  /\ req.httpMethod = "PATCH"
  /\ StartsWithItems(req.path)
  /\ resp.statusCode = 200
  /\ Failed(resp, "Method Not Allowed")

\* The stage an execution is in.
StageOf(x) == IF x.stage = 0 THEN "None" ELSE Stages[x.stage]

Ran(x, stage) == \E i \in 1..Len(x.done) : x.done[i] = stage

\* C20: the pipeline has the stages Source, Build, DeployDev, ApprovalForProd,
\* DeployProd in that order; in every execution the stages succeed in that
\* order, the approval is requested only after DeployDev has succeeded,
\* DeployProd runs only after the approval has been granted, and an execution
\* whose approval is pending or rejected has no production deployment.
C20_ProdOnlyAfterApproval ==
  /\ Stages = <<"Source", "Build", "DeployDev", "ApprovalForProd", "DeployProd">>
  /\ \A e \in 1..MaxExecutions :
       LET x == executions[e] IN
       /\ x.done = SubSeq(Stages, 1, Len(x.done))
       /\ StageOf(x) = "ApprovalForProd" => Ran(x, "DeployDev")
       /\ x.approval # "None" => Ran(x, "DeployDev")
       /\ (StageOf(x) = "DeployProd" \/ Ran(x, "DeployProd")) =>
            x.approval = "Approved" /\ Ran(x, "ApprovalForProd")
       /\ x.approval \in {"Pending", "Rejected"} =>
            StageOf(x) # "DeployProd" /\ ~Ran(x, "DeployProd")

\* C20's case: one execution has been approved and has deployed to
\* production while a later one has been rejected.
C20_Witness ==
  /\ Ran(executions[1], "DeployProd")
  /\ executions[1].approval = "Approved"
  /\ executions[2].approval = "Rejected"
  /\ executions[2].status = "Failed"

\* C21: the Build stage is a quality gate: an execution in whose build lint
\* or the unit tests failed has its Build stage failed, and neither DeployDev
\* nor DeployProd is entered.
C21_BuildIsQualityGate ==
  \A e \in 1..MaxExecutions :
    LET x == executions[e] IN
    x.failed \cap {"lint", "test"} # {} =>
      /\ StageOf(x) = "Build"
      /\ x.status = "Failed"
      /\ ~Ran(x, "Build")

\* C22: the DynamoDB handler sends each store command at most once in an
\* invocation, and a call that fails is the last one of the invocation, which
\* is answered with status 500: no call is retried and none follows a failure.
C22_NoRetry ==
  variant = "ddb" =>
    /\ \A i, j \in DOMAIN sent : sent[i].command = sent[j].command => i = j
    /\ \A i \in DOMAIN sent :
         ~sent[i].ok => i = Len(sent) /\ resp.statusCode = 500

\* C22's case: an update found its item and its UpdateCommand failed.
C22_Witness ==
  /\ variant = "ddb"
  /\ IsPut(req)
  /\ sent = <<Send("GetCommand", TRUE), Send("UpdateCommand", FALSE)>>
  /\ resp.statusCode = 500

\* C23: a GET, PUT or DELETE on /api/v1/items/X acts on the item whose id is
\* the trailing segment X of the path, whether or not the event carries
\* pathParameters: a successful GET returns the item with id X and never
\* the list, a successful PUT returns the item with id X, and no item with
\* another id is added, removed or changed.
C23_IdFromPath ==
  [][(IsGet(req') \/ IsPut(req') \/ IsDelete(req')) =>
       LET X == LastSegment(req'.path) IN
       /\ (Succeeded(resp') /\ ~IsDelete(req')) =>
            /\ "items" \notin DOMAIN resp'.body.data
            /\ "item" \in DOMAIN resp'.body.data
            /\ resp'.body.data.item.id = X
       /\ {i \in ItemsOf(Store') : i.id # X} = {i \in ItemsOf(Store) : i.id # X}]_vars

\* C24: a successful create stores exactly one new item, the one it returns,
\* whose createdAt and updatedAt are the same instant, and leaves every item
\* stored before as it was.
C24_CreateAddsOne ==
  [][(IsPost(req') /\ Succeeded(resp')) =>
       LET item == resp'.body.data.item IN
       /\ item.createdAt = item.updatedAt
       /\ IF variant = "mem"
            THEN items' = Append(items, item)
            ELSE /\ item.id \notin DOMAIN table
                 /\ DOMAIN table' = DOMAIN table \cup {item.id}
                 /\ table'[item.id] = item
                 /\ \A k \in DOMAIN table : table'[k] = table[k]]_vars

\* The number of items the store holds.
StoreSize(store) == IF variant = "mem" THEN Len(store) ELSE Cardinality(DOMAIN store)

\* C28: a PUT or DELETE on id X that succeeds leaves every stored item whose
\* id is not X as it was, in all fields, and a DELETE that succeeds leaves
\* the store with exactly one item fewer.
C28_Frame ==
  [][((IsPut(req') \/ IsDelete(req')) /\ Succeeded(resp')) =>
       LET X == TargetId(variant, req')
           Other(item) == item.id # X
       IN /\ IF variant = "mem"
               THEN SelectSeq(items', Other) = SelectSeq(items, Other)
               ELSE /\ DOMAIN table' \ {X} = DOMAIN table \ {X}
                    /\ \A k \in DOMAIN table \ {X} : table'[k] = table[k]
          /\ IsDelete(req') => StoreSize(Store') = StoreSize(Store) - 1]_vars

\* C28's case: a DELETE has succeeded in the in-memory handler and an item
\* with another id is still stored.
C28_Witness ==
  /\ variant = "mem"
  /\ IsDelete(req)
  /\ Succeeded(resp)
  /\ \E i \in 1..Len(items) : items[i].id # TargetId(variant, req)

\* C29: a create that succeeds returns an id that no stored item has; hence
\* the ids of successive creates with no delete in between, each stored when
\* the next is made, are pairwise distinct and distinct from the ids stored
\* before.
C29_FreshIds ==
  [][(IsPost(req') /\ Succeeded(resp')) =>
       resp'.body.data.item.id \notin LiveIds]_vars

\* The commands of a script, by name.
NamesOf(script) == [i \in 1..Len(script) |-> script[i].name]

\* Whether a command is in the run's log.
HasRun(name) == \E i \in 1..Len(run.log) : run.log[i] = name

-----------------------------------------------------------------------------
(* Invocations in progress at the same time.  An invocation runs up to its
   next await in one step; between two such steps of one invocation others
   may take theirs. *)

storeVars == <<items, table, uuidCount, now>>

otherVars ==
  <<variant, req, resp, audit, deleted, lastCreated, lastRead, executions, sent, run>>

\* In-memory handler: what the ApiResponse of an invocation refers to when
\* the invocation suspends at `await handleItemsApi(...)`.  listItems puts
\* `items` itself in data.items; getItem, updateItem and createItem put an
\* object of the array in data.item; deleteItem the object it has removed.
RefOf(event, arr, o) ==
  IF ~Succeeded(o.response) THEN [ref |-> "none", at |-> 0]
  ELSE IF "items" \in DOMAIN o.response.body.data THEN [ref |-> "array", at |-> 0]
  ELSE IF event.httpMethod = "DELETE" THEN [ref |-> "none", at |-> 0]
  ELSE IF event.httpMethod = "POST" THEN [ref |-> "item", at |-> Len(o.store)]
  ELSE [ref |-> "item", at |-> FindIndex(arr, Prop(event.pathParameters, "id"))]

\* A suspended invocation after another has removed the k-th object of the
\* array arr: an object that has left the array changes no more, the ones
\* behind it move up.
AfterSplice(c, arr, k) ==
  IF c.pc = "awaiting" /\ c.ref = "item"
    THEN IF c.at = k
           THEN [c EXCEPT !.ref = "none", !.at = 0, !.resp.body.data.item = arr[k]]
         ELSE IF c.at > k THEN [c EXCEPT !.at = @ - 1]
         ELSE c
    ELSE c

\* In-memory handler, from the start of handler() to its await: the whole of
\* listItems, getItem, createItem, updateItem or deleteItem, none of which
\* awaits.
CallMem(r, e) ==
  \E o \in Outcomes(e) :
    LET k == IF e.httpMethod = "DELETE" /\ Succeeded(o.response)
               THEN FindIndex(items, Prop(e.pathParameters, "id")) ELSE 0
        held == RefOf(e, items, o)
    IN /\ WithinBounds(o)
       /\ calls' = [c \in 1..MaxRequests |->
                      IF c = r
                        THEN [pc |-> "awaiting", event |-> e, resp |-> o.response,
                              ref |-> held.ref, at |-> held.at]
                      ELSE IF k > 0 THEN AfterSplice(calls[c], items, k)
                      ELSE calls[c]]
       /\ items' = o.store
       /\ now' = o.clock
       /\ UNCHANGED <<table, uuidCount>>

\* In-memory handler, after the await: createResponse(200, response,
\* corsHeaders), whose JSON.stringify reads the array or the object the
\* response refers to as it is by now.
ResumeMem(r) ==
  LET c == calls[r] IN
  /\ calls' = [calls EXCEPT ![r] =
       [c EXCEPT !.pc = "returned",
                 !.resp = CASE c.ref = "array" -> [@ EXCEPT !.body.data.items = items]
                            [] c.ref = "item" -> [@ EXCEPT !.body.data.item = items[c.at]]
                            [] OTHER -> @]]
  /\ UNCHANGED storeVars

\* DynamoDB handler, from the start of handler() to the answer of its first
\* command: a handler with one command returns; handleUpdateItem and
\* handleDeleteItem, when the GetCommand has found the item, go on to send
\* their second command.
CallDdb(r, e) ==
  \E o \in Outcomes(e) :
    /\ WithinBounds(o)
    /\ IF e.httpMethod \in {"PUT", "DELETE"} /\ o.response.statusCode = 200
         THEN /\ calls' = [calls EXCEPT ![r] =
                             [NoCall EXCEPT !.pc = "awaiting", !.event = e]]
              /\ UNCHANGED storeVars
         ELSE /\ calls' = [calls EXCEPT ![r] =
                             [NoCall EXCEPT !.pc = "returned", !.event = e,
                                            !.resp = o.response]]
              /\ table' = o.store
              /\ uuidCount' = IF o.drew THEN uuidCount + 1 ELSE uuidCount
              /\ now' = o.clock
              /\ UNCHANGED items

\* DynamoDB handler: the second command of handleUpdateItem or
\* handleDeleteItem reaches the table, and the handler returns.
ResumeDdb(r) ==
  LET e == calls[r].event
      id == LastSegment(e.path)
  IN \E t \in Readings(now) :
       LET o == IF e.httpMethod = "PUT"
                  THEN UpdateFound(table, id, JSONParse(BodyOrEmptyObject(e.body)), t)
                  ELSE DeleteFound(table, id, now)
       IN /\ calls' = [calls EXCEPT ![r].pc = "returned", ![r].resp = o.response]
          /\ table' = o.store
          /\ now' = o.clock
          /\ UNCHANGED <<items, uuidCount>>

\* An invocation starts while others are suspended.
Call ==
  \E r \in 1..MaxRequests : \E e \in ItemEvents(variant) :
    /\ calls[r].pc = "free"
    /\ IF variant = "mem" THEN CallMem(r, e) ELSE CallDdb(r, e)
    /\ UNCHANGED otherVars

\* A suspended invocation goes on and returns.
Resume ==
  \E r \in 1..MaxRequests :
    /\ calls[r].pc = "awaiting"
    /\ IF variant = "mem" THEN ResumeMem(r) ELSE ResumeDdb(r)
    /\ UNCHANGED otherVars

\* The caller has its response.
Release ==
  \E r \in 1..MaxRequests :
    /\ calls[r].pc = "returned"
    /\ calls' = [calls EXCEPT ![r] = NoCall]
    /\ UNCHANGED <<storeVars, otherVars>>

NextConcurrent == Call \/ Resume \/ Release

SpecConcurrent == Init /\ [][NextConcurrent]_vars

\* C25: invocations of the in-memory handler that run at the same time in
\* one process have the results of some sequential order of them: as in
\* every sequential run, a list returns as many items as its count says and a
\* create returns the name and description it was given.
C25_Serializable ==
  \A r \in 1..MaxRequests :
    LET c == calls[r] IN
    (variant = "mem" /\ c.pc = "returned" /\ Succeeded(c.resp)) =>
      /\ IsList(c.event) =>
           c.resp.body.data.count = Len(c.resp.body.data.items)
      /\ IsPost(c.event) =>
           /\ c.resp.body.data.item.name = c.event.body.name
           /\ c.resp.body.data.item.description = c.event.body.description

\* C26: in the DynamoDB handler, whatever the interleaving of creates,
\* updates and deletes, every record of the table is a complete item: it has
\* type "item", a non-empty name, a non-empty description and a createdAt.
C26_CompleteRecords ==
  variant = "ddb" =>
    \A k \in DOMAIN table :
      /\ {"type", "name", "description", "createdAt"} \subseteq DOMAIN table[k]
      /\ table[k].type = "item"
      /\ ~Falsy(table[k].name)
      /\ ~Falsy(table[k].description)

\* C27: no two DELETE requests on the same id both return success, in either
\* variant, also when they run at the same time.
C27_OneDeleteSucceeds ==
  \A r1, r2 \in 1..MaxRequests :
    LET c1 == calls[r1]
        c2 == calls[r2]
    IN (/\ r1 # r2
        /\ c1.pc = "returned" /\ IsDelete(c1.event) /\ Succeeded(c1.resp)
        /\ c2.pc = "returned" /\ IsDelete(c2.event) /\ Succeeded(c2.resp))
       => TargetId(variant, c1.event) # TargetId(variant, c2.event)

=============================================================================
